---- MODULE Spec2Model ----
(***************************************************************************)
(* Model of the banking transactions API: the DataLoader cache             *)
(* (utils/data_loader.py) and the query services built on it               *)
(* (services/*.py).                                                        *)
(*                                                                         *)
(* Strings whose characters matter (ids, formatted amounts, methods) are   *)
(* tuples of one-character strings, so that str(), str.replace and         *)
(* str.contains are computed, not assumed.  Amounts are whole currency     *)
(* units.  A DataFrame is a record of its column set, the dtype of the id  *)
(* and amount columns and its rows; DataFrames live in a heap and          *)
(* DataLoader._data is a reference into it, so that aliasing and in-place  *)
(* column assignment are visible.                                          *)
(***************************************************************************)
EXTENDS Integers, Sequences, FiniteSets, TLC

VARIABLES
    fs,         \* the files the loader reads (fixed during a run)
    _data,      \* DataLoader._data: None or a reference into heap
    heap,       \* the DataFrames allocated so far, by reference
    reads,      \* history: reads of the source since start / last clear_cache
    completed,  \* history: a load_data call returned normally since then
    dropped,    \* history: the reference dropped by the last clear_cache
    thr,        \* per-thread frame of a load_data call in progress
    last,       \* the last operation: its name, argument, outcome
    _instance,  \* DataLoader._instance: None or a DataLoader object
    loaders,    \* the DataLoader objects created so far, each with its _data
    data_loader \* self.data_loader of each holder of a DataLoader

vars == <<fs, _data, heap, reads, completed, dropped, thr, last,
          _instance, loaders, data_loader>>

----------------------------------------------------------------------------
\* Bounds of the model.

MaxRows == 2        \* rows in the source file
MaxObjs == 2        \* DataFrames read from the source in one run
MaxPage == 3        \* page numbers tried
MaxLimit == 2       \* page sizes tried
MaxBins == 6        \* histogram bins tried, from MinBins

MinBins == 5        \* the fewest bins GET /stats/amount-distribution accepts

None == "None"    \* no path given
NoData == 0         \* _data is None: references are 1, 2, ...
NaN == <<"nan">>    \* pandas' missing value in a text column
NoCol == "NoCol"    \* the value of a column the frame does not have

----------------------------------------------------------------------------
\* Text.

DigitChars == <<"0", "1", "2", "3", "4", "5", "6", "7", "8", "9">>

RECURSIVE NatToStr(_)
NatToStr(n) ==
    IF n < 10 THEN <<DigitChars[n + 1]>>
    ELSE NatToStr(n \div 10) \o <<DigitChars[(n % 10) + 1]>>

\* str(n) of a Python int
IntToStr(n) == IF n < 0 THEN <<"-">> \o NatToStr(0 - n) ELSE NatToStr(n)

DigitVal(c) == CHOOSE d \in 0..9 : DigitChars[d + 1] = c

IsDigit(c) == \E d \in 0..9 : DigitChars[d + 1] = c

RECURSIVE DigitsToNat(_)
DigitsToNat(s) ==
    IF s = <<>> THEN 0
    ELSE 10 * DigitsToNat(SubSeq(s, 1, Len(s) - 1)) + DigitVal(s[Len(s)])

StrToInt(s) ==
    IF s[1] = "-" THEN 0 - DigitsToNat(Tail(s)) ELSE DigitsToNat(s)

\* s.replace(c, '') for a one-character c
Remove(s, c) == SelectSeq(s, LAMBDA x : x # c)

Pad3(n) ==
    IF n < 10 THEN <<"0", "0">> \o NatToStr(n)
    ELSE IF n < 100 THEN <<"0">> \o NatToStr(n) ELSE NatToStr(n)

\* the source file's text of an amount: "$5", "$-77", "$1,200"
Dollar(n) ==
    LET a == IF n < 0 THEN 0 - n ELSE n
        sign == IF n < 0 THEN <<"-">> ELSE <<>>
    IN  IF a < 1000 THEN <<"$">> \o sign \o NatToStr(a)
        ELSE <<"$">> \o sign \o NatToStr(a \div 1000) \o <<",">> \o Pad3(a % 1000)

----------------------------------------------------------------------------
\* The files: the rows of the transactions source, as pandas parses them,
\* and the fraud label file.

Missing == "<NA>"   \* a missing value of merchant_state / merchant_city

Chip == <<"C", "h", "i", "p">>
Online == <<"O", "n", "l", "i", "n", "e">>
Swipe == <<"S", "w", "i", "p", "e">>

RowPool ==
    << [id |-> 7, date |-> 101, client_id |-> 0, amount |-> 5,
        use_chip |-> Chip, merchant_state |-> "CA", merchant_city |-> "LA",
        mcc |-> 5999],
       [id |-> 12, date |-> 205, client_id |-> 1, amount |-> 1200,
        use_chip |-> Online, merchant_state |-> Missing,
        merchant_city |-> "ONLINE", mcc |-> 5815],
       [id |-> 30, date |-> 101, client_id |-> 1, amount |-> 0 - 77,
        use_chip |-> Swipe, merchant_state |-> "ND",
        merchant_city |-> "Beulah", mcc |-> 5499],
       [id |-> 4, date |-> 230, client_id |-> 0, amount |-> 5,
        use_chip |-> NaN, merchant_state |-> "CA", merchant_city |-> "LA",
        mcc |-> 5411] >>

\* the source files tried: up to MaxRows distinct rows, in any storage order
IndexSeqs ==
    UNION { { q \in [1..n -> 1..Len(RowPool)] :
                \A i, j \in 1..n : i # j => q[i] # q[j] } : n \in 0..MaxRows }

Sources == { [i \in 1..Len(q) |-> RowPool[q[i]]] : q \in IndexSeqs }

\* the "target" object of the label file: id text -> label
EmptyDict == [k \in {} |-> "No"]

Targets ==
    { EmptyDict,
      (<<"7">> :> "Yes") @@ (<<"1", "2">> :> "No"),
      (<<"1", "2">> :> "Yes") @@ (<<"3", "0">> :> "Yes") @@ (<<"4">> :> "yes")
          @@ (<<"0", "7">> :> "Yes") @@ (<<"9", "9">> :> "No") }

LabelFiles ==
    { [state |-> "absent", target |-> EmptyDict],
      [state |-> "corrupt", target |-> EmptyDict] }
    \cup { [state |-> "ok", target |-> t] : t \in Targets }

BaseCols ==
    {"id", "date", "client_id", "amount", "use_chip", "merchant_state",
     "merchant_city", "mcc"}

\* file_path arguments of load_data: none, a file that exists, one that does not
GivenPath == "given.csv"
MissingPath == "missing.csv"
DefaultPath == "data/transactions_data.csv"
DefaultLabelsPath == "data/train_fraud_labels.json"
PathArgs == {None, GivenPath, MissingPath}

\* os.path.exists
Exists(p) ==
    \/ p = GivenPath
    \/ p = DefaultPath /\ fs.defaultExists
    \/ p = DefaultLabelsPath /\ fs.labels.state # "absent"

\* pd.read_csv(file_path): a new DataFrame of the file's rows
ReadCsv ==
    [cols |-> IF fs.hasId THEN BaseCols ELSE BaseCols \ {"id"},
     idStr |-> FALSE,
     amountStr |-> fs.amountFmt,
     rows |-> [i \in 1..Len(fs.csv) |->
                 [id |-> IF fs.hasId THEN fs.csv[i].id ELSE NoCol,
                  date |-> fs.csv[i].date,
                  client_id |-> fs.csv[i].client_id,
                  amount |-> IF fs.amountFmt THEN Dollar(fs.csv[i].amount)
                             ELSE fs.csv[i].amount,
                  use_chip |-> fs.csv[i].use_chip,
                  merchant_state |-> fs.csv[i].merchant_state,
                  merchant_city |-> fs.csv[i].merchant_city,
                  mcc |-> fs.csv[i].mcc,
                  isFraud |-> NoCol]]]

----------------------------------------------------------------------------
\* DataLoader.load_data, line by line.  S is the shared state
\* [data, heap, reads]; L is the frame of one call
\* [pc, arg, file_path, fraud_labels_path, exc, ret]; arg is the file_path the
\* caller passed.

\* mutant: the check of the cached frame is missing
CacheHitNever(S) == FALSE

\* if self._data is not None: return self._data
CacheHit(S) == S.data # NoData

\* self._data['id'] = self._data['id'].astype(str)
CoerceId(t) ==
    IF t.idStr THEN t
    ELSE [t EXCEPT !.idStr = TRUE,
                   !.rows = [i \in 1..Len(t.rows) |->
                               [t.rows[i] EXCEPT !.id = IntToStr(@)]]]

\* mutant: every labelled id counts as fraud
FraudDictAnyLabel(target) == [k \in DOMAIN target |-> 1]

\* fraud_dict = {k: 1 if v == "Yes" else 0 for k, v in target.items()}
FraudDict(target) ==
    [k \in DOMAIN target |-> IF target[k] = "Yes" THEN 1 ELSE 0]

\* one value of self._data['id'].map(fraud_dict).fillna(0).astype(int)
MapLabel(t, id, fraud_dict) ==
    IF t.idStr /\ id \in DOMAIN fraud_dict THEN fraud_dict[id] ELSE 0

\* self._data['isFraud'] = self._data['id'].map(fraud_dict).fillna(0).astype(int)
MergeLabels(t, fraud_dict) ==
    [t EXCEPT !.cols = @ \cup {"isFraud"},
              !.rows = [i \in 1..Len(t.rows) |->
                          [t.rows[i] EXCEPT
                             !.isFraud = MapLabel(t, t.rows[i].id, fraud_dict)]]]

\* mutant: the default column is never added
ZeroLabelsSkipped(t) == t

\* self._data['isFraud'] = 0
ZeroLabels(t) ==
    [t EXCEPT !.cols = @ \cup {"isFraud"},
              !.rows = [i \in 1..Len(t.rows) |->
                          [t.rows[i] EXCEPT !.isFraud = 0]]]

\* mutant: a missing label file is fatal too
SourceOrLabelsMissing(file_path) ==
    ~Exists(file_path) \/ ~Exists(DefaultLabelsPath)

\* if not os.path.exists(file_path): raise FileNotFoundError
SourceMissing(file_path) == ~Exists(file_path)

\* mutant: the default label file is read whatever the source
LabelsPathAlways(file_path) == DefaultLabelsPath

\* fraud_labels_path of a call: the default label file only with the default source
LabelsPathFor(file_path) ==
    IF file_path = None THEN DefaultLabelsPath ELSE None

NewFrame(file_path) ==
    [pc |-> "l59", arg |-> file_path, file_path |-> file_path,
     fraud_labels_path |-> None, exc |-> "none", ret |-> NoData]

IdleFrame ==
    [pc |-> "idle", arg |-> None, file_path |-> None,
     fraud_labels_path |-> None, exc |-> "none", ret |-> NoData]

Raise(S, L, e) == [S |-> S, L |-> [L EXCEPT !.pc = "done", !.exc = e]]

Goto(S, L, pc) == [S |-> S, L |-> [L EXCEPT !.pc = pc]]

\* one line of load_data
LoadStep(S, L) ==
    CASE L.pc = "l59" ->
            IF CacheHit(S)
            THEN [S |-> S, L |-> [L EXCEPT !.pc = "done", !.ret = S.data]]
            ELSE Goto(S, L, "l62")
      [] L.pc = "l62" ->
            LET fp == IF L.file_path = None THEN DefaultPath ELSE L.file_path
                lp == LabelsPathFor(L.file_path)
                L2 == [L EXCEPT !.file_path = fp, !.fraud_labels_path = lp]
            IN  IF SourceMissing(fp) THEN Raise(S, L2, "FileNotFoundError")
                ELSE Goto(S, L2, "l76")
      [] L.pc = "l76" ->
            Goto([S EXCEPT !.heap = Append(@, ReadCsv),
                           !.data = Len(S.heap) + 1,
                           !.reads = @ + 1], L, "l79")
      [] L.pc = "l79" ->
            IF S.data = NoData THEN Raise(S, L, "TypeError")
            ELSE IF "id" \notin S.heap[S.data].cols THEN Raise(S, L, "KeyError")
            ELSE Goto([S EXCEPT !.heap[S.data] = CoerceId(@)], L, "l82")
      [] L.pc = "l82" ->
            IF L.fraud_labels_path # None /\ Exists(L.fraud_labels_path)
            THEN IF fs.labels.state = "corrupt"
                 THEN Raise(S, L, "JSONDecodeError")
                 ELSE IF S.data = NoData THEN Raise(S, L, "TypeError")
                 ELSE Goto([S EXCEPT !.heap[S.data] =
                               MergeLabels(@, FraudDict(fs.labels.target))],
                           L, "l99")
            ELSE IF S.data = NoData THEN Raise(S, L, "TypeError")
            ELSE Goto([S EXCEPT !.heap[S.data] = ZeroLabels(@)], L, "l99")
      [] L.pc = "l99" ->
            [S |-> S, L |-> [L EXCEPT !.pc = "done", !.ret = S.data]]

\* a whole call, run without interruption
RECURSIVE RunLoad(_, _)
RunLoad(S, L) ==
    IF L.pc = "done" THEN [S |-> S, L |-> L]
    ELSE LET n == LoadStep(S, L) IN RunLoad(n.S, n.L)

Shared == [data |-> _data, heap |-> heap, reads |-> reads]

----------------------------------------------------------------------------
\* The cache operations.  Requests are answered one at a time: an operation
\* runs when no response is pending and leaves its outcome in last; Respond
\* hands the response over.

Threads == {"t1", "t2"}

NoInstance == 0   \* None, for a DataLoader object

\* the places that call DataLoader(): lifespan() and the five services
Holders ==
    {"lifespan", "TransactionsService", "StatsService",
     "FraudDetectionService", "CustomerService", "SystemService"}

\* no DataLoader() call yet.  The specifications of the cache and of the
\* queries work on the _data of the one DataLoader object and leave its
\* construction to SpecSingleton.
Unbuilt ==
    /\ _instance = NoInstance
    /\ loaders = <<>>
    /\ data_loader = [h \in Holders |-> NoInstance]

\* files with a well-formed, present source, and files whose source is
\* missing at the default location or has no id column
GoodEnvs ==
    [csv : Sources, amountFmt : BOOLEAN, hasId : {TRUE},
     defaultExists : {TRUE}, labels : LabelFiles]

BadEnvs ==
    { e \in [csv : Sources, amountFmt : {FALSE}, hasId : BOOLEAN,
             defaultExists : BOOLEAN,
             labels : {l \in LabelFiles : l.state # "corrupt"}] :
        ~(e.hasId /\ e.defaultExists) }

Envs == GoodEnvs \cup BadEnvs

Pre == [data |-> _data, heap |-> heap, reads |-> reads,
        completed |-> completed, dropped |-> dropped]

Idle ==
    [op |-> "idle", arg |-> None, exc |-> "none", ret |-> None,
     pre |-> [data |-> NoData, heap |-> <<>>, reads |-> 0,
              completed |-> FALSE, dropped |-> NoData]]

Init ==
    /\ fs \in Envs
    /\ _data = NoData
    /\ heap = <<>>
    /\ reads = 0
    /\ completed = FALSE
    /\ dropped = NoData
    /\ thr = [t \in Threads |-> IdleFrame]
    /\ last = Idle
    /\ Unbuilt

\* DataLoader.load_data(file_path)
LoadData(p) ==
    /\ last.op = "idle"
    /\ _data # NoData \/ Len(heap) < MaxObjs
    /\ LET r == RunLoad(Shared, NewFrame(p))
       IN  /\ _data' = r.S.data
           /\ heap' = r.S.heap
           /\ reads' = r.S.reads
           /\ completed' = (completed \/ r.L.exc = "none")
           /\ last' = [op |-> "load_data", arg |-> p, exc |-> r.L.exc,
                       ret |-> r.L.ret, pre |-> Pre, path |-> r.L.file_path]
    /\ UNCHANGED <<fs, _instance, loaders, data_loader, dropped, thr>>

\* DataLoader.get_data(): RuntimeError unless _data is set
GetDataExc(d) == IF d = NoData THEN "RuntimeError" ELSE "none"

GetData ==
    /\ last.op = "idle"
    /\ last' = [op |-> "get_data", arg |-> None, exc |-> GetDataExc(_data),
                ret |-> _data, pre |-> Pre]
    /\ UNCHANGED <<fs, _instance, loaders, data_loader, _data, heap, reads, completed, dropped, thr>>

\* DataLoader.is_loaded()
IsLoadedValue(d) == d # NoData

IsLoaded ==
    /\ last.op = "idle"
    /\ last' = [op |-> "is_loaded", arg |-> None, exc |-> "none",
                ret |-> IsLoadedValue(_data), pre |-> Pre]
    /\ UNCHANGED <<fs, _instance, loaders, data_loader, _data, heap, reads, completed, dropped, thr>>

\* mutant: clear_cache keeps the reference
ClearedDataKept(d) == d

\* DataLoader.clear_cache(): self._data = None
ClearedData(d) == NoData

ClearCache ==
    /\ last.op = "idle"
    /\ _data' = ClearedData(_data)
    /\ dropped' = _data
    /\ reads' = 0
    /\ completed' = FALSE
    /\ last' = [op |-> "clear_cache", arg |-> None, exc |-> "none",
                ret |-> None, pre |-> Pre]
    /\ UNCHANGED <<fs, _instance, loaders, data_loader, heap, thr>>

\* the response is handed to the caller
Respond ==
    /\ last.op \notin {"idle", "startup"}
    /\ last' = Idle
    /\ UNCHANGED <<fs, _instance, loaders, data_loader, _data, heap, reads, completed, dropped, thr>>

Next ==
    \/ \E p \in PathArgs : LoadData(p)
    \/ GetData
    \/ IsLoaded
    \/ ClearCache
    \/ Respond

Spec == Init /\ [][Next]_vars

----------------------------------------------------------------------------
\* load_data called from several threads, interleaved line by line.

RaceEnvs == { e \in Envs : e.amountFmt = FALSE }

RaceInit ==
    /\ fs \in RaceEnvs
    /\ _data = NoData
    /\ heap = <<>>
    /\ reads = 0
    /\ completed = FALSE
    /\ dropped = NoData
    /\ thr = [t \in Threads |-> IdleFrame]
    /\ last = Idle
    /\ Unbuilt

\* the calls that may still read the source
InFlight == {t \in Threads : thr[t].pc \in {"l59", "l62", "l76"}}

Call(t, p) ==
    /\ thr[t].pc = "idle"
    /\ Len(heap) + Cardinality(InFlight) < MaxObjs
    /\ thr' = [thr EXCEPT ![t] = NewFrame(p)]
    /\ UNCHANGED <<fs, _instance, loaders, data_loader, _data, heap, reads, completed, dropped, last>>

Step(t) ==
    /\ thr[t].pc \notin {"idle", "done"}
    /\ LET n == LoadStep(Shared, thr[t])
       IN  /\ _data' = n.S.data
           /\ heap' = n.S.heap
           /\ reads' = n.S.reads
           /\ thr' = [thr EXCEPT ![t] = n.L]
           /\ completed' = (completed \/ (n.L.pc = "done" /\ n.L.exc = "none"))
    /\ UNCHANGED <<fs, _instance, loaders, data_loader, dropped, last>>

RaceNext ==
    \/ \E t \in Threads, p \in PathArgs : Call(t, p)
    \/ \E t \in Threads : Step(t)

SpecRace == RaceInit /\ [][RaceNext]_vars

----------------------------------------------------------------------------
\* DataFrames as the services use them.  A frame c is what a local name df
\* is bound to: c.tbl is the DataFrame, c.alias says that it is the cached
\* DataFrame itself (what get_data returned) and c.shared is the cached
\* DataFrame, which an assignment through an alias changes.

\* df = self.data_loader.get_data()
FrameOf(t) == [shared |-> t, alias |-> TRUE, tbl |-> t]

\* mutant: .copy() is dropped
CopyFrameAlias(c) == c

\* df = df.copy()
CopyFrame(c) == [c EXCEPT !.alias = FALSE]

\* df[column] = values: in place, so through an alias into the cached frame
AssignCols(c, tbl) ==
    IF c.alias THEN [shared |-> tbl, alias |-> TRUE, tbl |-> tbl]
    ELSE [c EXCEPT !.tbl = tbl]

\* df = df[mask] and the like: a new DataFrame
Derived(c, tbl) == [shared |-> c.shared, alias |-> FALSE, tbl |-> tbl]

\* s.replace('$', '').replace(',', '') as a float
ParseAmount(a) == StrToInt(Remove(Remove(a, "$"), ","))

\* df['amount'].str.replace('$', '').str.replace(',', '').astype(float)
ParseAmounts(t) ==
    [t EXCEPT !.amountStr = FALSE,
              !.rows = [i \in 1..Len(t.rows) |->
                          [t.rows[i] EXCEPT !.amount = ParseAmount(@)]]]

\* if df['amount'].dtype == 'object': df['amount'] = ...
ParseIfText(c) ==
    IF c.tbl.amountStr THEN AssignCols(c, ParseAmounts(c.tbl)) ELSE c

\* the amount of a row as a number, whatever the dtype of the column
AmountOf(t, row) == IF t.amountStr THEN ParseAmount(row.amount) ELSE row.amount

UpperChars ==
    <<"A", "B", "C", "D", "E", "F", "G", "H", "I", "J", "K", "L", "M",
      "N", "O", "P", "Q", "R", "S", "T", "U", "V", "W", "X", "Y", "Z">>

LowerChars ==
    <<"a", "b", "c", "d", "e", "f", "g", "h", "i", "j", "k", "l", "m",
      "n", "o", "p", "q", "r", "s", "t", "u", "v", "w", "x", "y", "z">>

Lower(ch) ==
    IF \E i \in 1..Len(UpperChars) : UpperChars[i] = ch
    THEN LowerChars[CHOOSE i \in 1..Len(UpperChars) : UpperChars[i] = ch]
    ELSE ch

\* re.search(pat, text, re.IGNORECASE) for a pattern of literal characters
\* and ".", which matches any character
Contains(text, pat) ==
    \E k \in 0..(Len(text) - Len(pat)) :
        \A j \in 1..Len(pat) :
            pat[j] = "." \/ Lower(pat[j]) = Lower(text[k + j])

\* the dtype of use_chip is object: read_csv types a non-empty column of
\* missing values only as float64
UseChipIsText(t) ==
    Len(t.rows) = 0 \/ \E i \in 1..Len(t.rows) : t.rows[i].use_chip # NaN

\* df['use_chip'].str.contains(pat, case=False, na=False), row by row
MethodMatches(row, pat) == row.use_chip # NaN /\ Contains(row.use_chip, pat)

\* mutant: the slice takes the element at end as well
PySliceClosed(seq, start, end) ==
    LET lo == IF start > Len(seq) THEN Len(seq) ELSE start
        hi == IF end + 1 > Len(seq) THEN Len(seq) ELSE end + 1
    IN  SubSeq(seq, lo + 1, hi)

\* a Python slice seq[start:end] with 0 <= start <= end
PySlice(seq, start, end) ==
    LET lo == IF start > Len(seq) THEN Len(seq) ELSE start
        hi == IF end > Len(seq) THEN Len(seq) ELSE end
    IN  SubSeq(seq, lo + 1, hi)

Unknown == <<"U", "n", "k", "n", "o", "w", "n">>

\* Transaction(**row.to_dict()) fails validation without a text id
RowInvalid(t) == "id" \notin t.cols \/ ~t.idStr

\* Transaction(**row.to_dict()): the validators of models/transaction.py
ToTransaction(t, row) ==
    [id |-> row.id, date |-> row.date, client_id |-> row.client_id,
     amount |-> AmountOf(t, row),
     use_chip |-> IF row.use_chip = NaN THEN Unknown ELSE row.use_chip,
     merchant_state |-> IF row.merchant_state = Missing THEN None
                        ELSE row.merchant_state,
     merchant_city |-> IF row.merchant_city = Missing THEN None
                       ELSE row.merchant_city,
     mcc |-> row.mcc,
     isFraud |-> IF "isFraud" \in t.cols THEN row.isFraud ELSE 0]

ToTransactions(t, rows) == [i \in 1..Len(rows) |-> ToTransaction(t, rows[i])]

\* the outcome of a service call: the cached DataFrame after it, the
\* exception raised or "none", and the value returned
Outcome(shared, exc, ret) == [shared |-> shared, exc |-> exc, ret |-> ret]

Given(f, k) == k \in DOMAIN f

\* a provided str parameter that is not empty
Truthy(f, k) == k \in DOMAIN f /\ f[k] # <<>>

----------------------------------------------------------------------------
\* TransactionsService

\* mutant: pages counted from 0
StartIdxFromZero(page, limit) == page * limit

\* start_idx = (page - 1) * limit
StartIdx(page, limit) == (page - 1) * limit

\* lines 73-88 and 155-170: total, the slice, the Transaction list; ws is
\* history: the filtered rows the page was cut from
Paginate(c, page, limit) ==
    LET total == Len(c.tbl.rows)
        start_idx == StartIdx(page, limit)
        end_idx == start_idx + limit
        slice == PySlice(c.tbl.rows, start_idx, end_idx)
    IN  IF slice # <<>> /\ RowInvalid(c.tbl)
        THEN Outcome(c.shared, "ValidationError", None)
        ELSE Outcome(c.shared, "none",
                     [page |-> page, limit |-> limit, total |-> total,
                      transactions |-> ToTransactions(c.tbl, slice),
                      ws |-> c.tbl.rows])

Keep(c, Test(_)) ==
    Derived(c, [c.tbl EXCEPT !.rows = SelectSeq(c.tbl.rows, Test)])

\* get_transactions(page, limit, use_chip_filter, is_fraud, min_amount,
\* max_amount, merchant_state); f holds the filters that were passed
GetTransactions(t, page, limit, f) ==
    LET c1 == ParseIfText(CopyFrame(FrameOf(t)))
        c2 == IF Truthy(f, "use_chip")
              THEN Keep(c1, LAMBDA r : MethodMatches(r, f.use_chip)) ELSE c1
        c3 == IF Given(f, "is_fraud")
              THEN Keep(c2, LAMBDA r : r.isFraud = f.is_fraud) ELSE c2
        c4 == IF Given(f, "min_amount")
              THEN Keep(c3, LAMBDA r : r.amount >= f.min_amount) ELSE c3
        c5 == IF Given(f, "max_amount")
              THEN Keep(c4, LAMBDA r : r.amount <= f.max_amount) ELSE c4
        c6 == IF Given(f, "merchant_state") /\ f.merchant_state # ""
              THEN Keep(c5, LAMBDA r : r.merchant_state = f.merchant_state)
              ELSE c5
    IN  IF Truthy(f, "use_chip") /\ ~UseChipIsText(t)
        THEN Outcome(c1.shared, "AttributeError", None)
        ELSE IF Given(f, "is_fraud") /\ "isFraud" \notin t.cols
        THEN Outcome(c1.shared, "KeyError", None)
        ELSE Paginate(c6, page, limit)

\* search_transactions(criteria, page, limit)
SearchTransactions(t, page, limit, f) ==
    LET c1 == ParseIfText(CopyFrame(FrameOf(t)))
        c2 == IF Truthy(f, "use_chip")
              THEN Keep(c1, LAMBDA r : MethodMatches(r, f.use_chip)) ELSE c1
        c3 == IF Given(f, "isFraud")
              THEN Keep(c2, LAMBDA r : r.isFraud = f.isFraud) ELSE c2
        c4 == IF Given(f, "amount_range") /\ f.amount_range # <<>>
              THEN Keep(c3, LAMBDA r : r.amount >= f.amount_range[1]
                                       /\ r.amount <= f.amount_range[2])
              ELSE c3
        c5 == IF Given(f, "client_id") /\ f.client_id # 0
              THEN Keep(c4, LAMBDA r : r.client_id = f.client_id) ELSE c4
        c6 == IF Given(f, "merchant_state") /\ f.merchant_state # ""
              THEN Keep(c5, LAMBDA r : r.merchant_state = f.merchant_state)
              ELSE c5
        c7 == IF Given(f, "merchant_city") /\ f.merchant_city # ""
              THEN Keep(c6, LAMBDA r : r.merchant_city = f.merchant_city)
              ELSE c6
    IN  IF Truthy(f, "use_chip") /\ ~UseChipIsText(t)
        THEN Outcome(c1.shared, "AttributeError", None)
        ELSE IF Given(f, "isFraud") /\ "isFraud" \notin t.cols
        THEN Outcome(c1.shared, "KeyError", None)
        ELSE Paginate(c7, page, limit)

\* mutant: the first record of the snapshot is returned for any known id
GetTransactionByIdFirstRow(t, transaction_id) ==
    LET c == FrameOf(t)
        hit == SelectSeq(t.rows, LAMBDA r : t.idStr /\ r.id = transaction_id)
    IN  IF "id" \notin t.cols THEN Outcome(c.shared, "KeyError", None)
        ELSE IF hit = <<>> THEN Outcome(c.shared, "none", None)
        ELSE Outcome(c.shared, "none", ToTransaction(t, t.rows[1]))

\* get_transaction_by_id(transaction_id)
GetTransactionById(t, transaction_id) ==
    LET c == FrameOf(t)
        hit == SelectSeq(t.rows, LAMBDA r : t.idStr /\ r.id = transaction_id)
    IN  IF "id" \notin t.cols THEN Outcome(c.shared, "KeyError", None)
        ELSE IF hit = <<>> THEN Outcome(c.shared, "none", None)
        ELSE Outcome(c.shared, "none", ToTransaction(t, hit[1]))

\* mutant: the record is removed from the cached DataFrame
DeleteTransactionRemoves(t, transaction_id) ==
    LET kept == SelectSeq(t.rows, LAMBDA r : ~(t.idStr /\ r.id = transaction_id))
    IN  IF "id" \notin t.cols THEN Outcome(t, "KeyError", None)
        ELSE Outcome([t EXCEPT !.rows = kept], "none", Len(kept) < Len(t.rows))

\* delete_transaction(transaction_id)
DeleteTransaction(t, transaction_id) ==
    LET c == FrameOf(t)
    IN  IF "id" \notin t.cols THEN Outcome(c.shared, "KeyError", None)
        ELSE Outcome(c.shared, "none",
                     \E i \in 1..Len(t.rows) :
                         t.idStr /\ t.rows[i].id = transaction_id)

\* get_transactions_by_client(client_id)
GetTransactionsByClient(t, client_id) ==
    LET c == FrameOf(t)
        hit == SelectSeq(t.rows, LAMBDA r : r.client_id = client_id)
    IN  IF hit # <<>> /\ RowInvalid(t)
        THEN Outcome(c.shared, "ValidationError", None)
        ELSE Outcome(c.shared, "none", ToTransactions(t, hit))

----------------------------------------------------------------------------
\* Sequences, orders and groups.

RECURSIVE SumSeq(_)
SumSeq(s) == IF s = <<>> THEN 0 ELSE s[1] + SumSeq(Tail(s))

Column(rows, Get(_)) == [i \in 1..Len(rows) |-> Get(rows[i])]

\* Series.unique(): the values in order of first appearance
RECURSIVE Uniq(_)
Uniq(s) ==
    IF s = <<>> THEN <<>>
    ELSE LET u == Uniq(SubSeq(s, 1, Len(s) - 1))
         IN  IF \E i \in 1..Len(u) : u[i] = s[Len(s)] THEN u
             ELSE Append(u, s[Len(s)])

\* s in the order Before, a strict total order on the positions of s
SortBy(s, Before(_, _)) ==
    LET n == Len(s)
        rank(i) == 1 + Cardinality({j \in 1..n : Before(j, i)})
    IN  [k \in 1..n |-> s[CHOOSE i \in 1..n : rank(i) = k]]

\* str < str in Python: by code point, a proper prefix first
CharOrd(ch) ==
    LET letters == UpperChars \o LowerChars
    IN  IF \E i \in 1..Len(letters) : letters[i] = ch
        THEN CHOOSE i \in 1..Len(letters) : letters[i] = ch
        ELSE 0

LexLess(a, b) ==
    \E k \in 0..Len(a) :
        /\ k <= Len(b)
        /\ \A j \in 1..k : a[j] = b[j]
        /\ \/ k = Len(a) /\ k < Len(b)
           \/ k < Len(a) /\ k < Len(b) /\ CharOrd(a[k + 1]) < CharOrd(b[k + 1])

\* sorted() of distinct texts, and of distinct ints
SortedTexts(s) == SortBy(s, LAMBDA j, i : LexLess(s[j], s[i]))

SortedInts(s) == SortBy(s, LAMBDA j, i : s[j] < s[i])

\* the orders an unstable sort may give positions 1..n: keys descending,
\* equal keys in any order
DescendingOrders(key) ==
    { q \in [1..Len(key) -> 1..Len(key)] :
        /\ \A i, j \in 1..Len(key) : i # j => q[i] # q[j]
        /\ \A i \in 1..(Len(key) - 1) : key[q[i]] >= key[q[i + 1]] }

\* a quotient of ints, the denominator positive
Rat(n, d) == [num |-> n, den |-> d]

RatLess(a, b) == a.num * b.den < b.num * a.den

\* Series.mean(): nan, written 0/0, for no values
Mean(s) == Rat(SumSeq(s), Len(s))

\* mutant: nan fails the bound as well
MeanInvalidOrNan(m) == m.den = 0 \/ m.num < 0

\* Field(..., ge=0.0) on a mean: a negative value fails; nan is not less
\* than the bound and passes
MeanInvalid(m) == m.den > 0 /\ m.num < 0

\* mutant: only the first distinct value makes a group
MethodKeysFirstOnly(t) ==
    LET keys == SelectSeq(Uniq(Column(t.rows, LAMBDA r : r.use_chip)),
                          LAMBDA m : m # NaN)
    IN  IF keys = <<>> THEN keys ELSE <<keys[1]>>

\* the groupby keys of use_chip with dropna: the distinct values, sorted
MethodKeys(t) ==
    SortedTexts(SelectSeq(Uniq(Column(t.rows, LAMBDA r : r.use_chip)),
                          LAMBDA m : m # NaN))

\* get_transaction_methods(): sorted(df['use_chip'].unique().tolist())
GetTransactionMethods(t) ==
    LET vals == Uniq(Column(t.rows, LAMBDA r : r.use_chip))
    IN  IF Len(vals) >= 2 /\ \E i \in 1..Len(vals) : vals[i] = NaN
        THEN Outcome(t, "TypeError", None)
        ELSE Outcome(t, "none", SortedTexts(vals))

\* get_recent_transactions(n): sort_values('date', ascending=False).head(n),
\* for one of the orders q the sort may give
GetRecentTransactions(t, n, q) ==
    LET sorted == [k \in 1..Len(t.rows) |-> t.rows[q[k]]]
        recent == PySlice(sorted, 0, n)
    IN  IF recent # <<>> /\ RowInvalid(t)
        THEN Outcome(t, "ValidationError", None)
        ELSE Outcome(t, "none", ToTransactions(t, recent))

----------------------------------------------------------------------------
\* StatsService

\* Series.mode()[0]: the smallest of the most frequent values present
ModeOf(t) ==
    LET keys == MethodKeys(t)
        cnt(m) == Len(SelectSeq(t.rows, LAMBDA r : r.use_chip = m))
        top == SelectSeq(keys, LAMBDA m :
                   \A j \in 1..Len(keys) : cnt(keys[j]) <= cnt(m))
    IN  top[1]

\* get_overview()
GetOverview(t) ==
    LET c == ParseIfText(CopyFrame(FrameOf(t)))
        df == c.tbl
        total_transactions == Len(df.rows)
        fraud_count == SumSeq(Column(df.rows, LAMBDA r : r.isFraud))
        fraud_rate == IF total_transactions > 0
                      THEN Rat(fraud_count, total_transactions) ELSE Rat(0, 1)
        avg_amount == Mean(Column(df.rows, LAMBDA r : r.amount))
        total_amount == SumSeq(Column(df.rows, LAMBDA r : r.amount))
    IN  IF "isFraud" \notin df.cols THEN Outcome(c.shared, "KeyError", None)
        ELSE IF Len(df.rows) > 0 /\ MethodKeys(df) = <<>>
        THEN Outcome(c.shared, "KeyError", None)
        ELSE IF MeanInvalid(avg_amount) \/ total_amount < 0
        THEN Outcome(c.shared, "ValidationError", None)
        ELSE Outcome(c.shared, "none",
                     [total_transactions |-> total_transactions,
                      fraud_rate |-> fraud_rate,
                      avg_amount |-> avg_amount,
                      most_common_type |-> IF Len(df.rows) > 0 THEN ModeOf(df)
                                           ELSE Unknown,
                      total_amount |-> total_amount])

\* int(x) of the quotient a / b, b positive: towards zero
TruncDiv(a, b) == IF a >= 0 THEN a \div b ELSE 0 - ((0 - a) \div b)

SeqMin(s) == CHOOSE x \in {s[i] : i \in 1..Len(s)} : \A i \in 1..Len(s) : x <= s[i]

SeqMax(s) == CHOOSE x \in {s[i] : i \in 1..Len(s)} : \A i \in 1..Len(s) : x >= s[i]

\* np.histogram's range, doubled so that it stays integral: (0, 1) for no
\* values, (min - 0.5, max + 0.5) when all values are equal
HistRange2(xs) ==
    IF xs = <<>> THEN <<0, 2>>
    ELSE IF SeqMin(xs) = SeqMax(xs)
    THEN <<2 * SeqMin(xs) - 1, 2 * SeqMax(xs) + 1>>
    ELSE <<2 * SeqMin(xs), 2 * SeqMax(xs)>>

\* mutant: the last bin is open on the right like the others
BinOfHalfOpen(x, range2, num_bins) ==
    ((2 * x - range2[1]) * num_bins) \div (range2[2] - range2[1])

\* the bin of x, from 0: equal widths, the last bin closed on the right
BinOf(x, range2, num_bins) ==
    LET b == ((2 * x - range2[1]) * num_bins) \div (range2[2] - range2[1])
    IN  IF b >= num_bins THEN num_bins - 1 ELSE b

\* int(bin_edges[i]), i from 0
EdgeInt(i, range2, num_bins) ==
    TruncDiv(range2[1] * num_bins + i * (range2[2] - range2[1]), 2 * num_bins)

\* get_amount_distribution(num_bins)
GetAmountDistribution(t, num_bins) ==
    LET c == ParseIfText(CopyFrame(FrameOf(t)))
        xs == Column(c.tbl.rows, LAMBDA r : r.amount)
        range2 == HistRange2(xs)
    IN  Outcome(c.shared, "none",
                [bins |-> [i \in 1..num_bins |->
                             IntToStr(EdgeInt(i - 1, range2, num_bins))
                             \o <<"-">>
                             \o IntToStr(EdgeInt(i, range2, num_bins))],
                 counts |-> [i \in 1..num_bins |->
                               Len(SelectSeq(xs, LAMBDA x :
                                       BinOf(x, range2, num_bins) = i - 1))]])

\* sorted(stats, key=..., reverse=True): equal keys keep their order
SortedDescending(s, Less(_, _)) ==
    SortBy(s, LAMBDA j, i : Less(s[i], s[j])
                            \/ (~Less(s[j], s[i]) /\ ~Less(s[i], s[j]) /\ j < i))

\* get_stats_by_type()
GetStatsByType(t) ==
    LET c0 == FrameOf(t)
        c == IF t.amountStr THEN ParseIfText(CopyFrame(c0)) ELSE c0
        df == c.tbl
        keys == MethodKeys(df)
        group(m) == SelectSeq(df.rows, LAMBDA r : r.use_chip = m)
        stat(m) ==
            [type |-> m,
             count |-> Len(group(m)),
             avg_amount |-> Mean(Column(group(m), LAMBDA r : r.amount)),
             total_amount |-> SumSeq(Column(group(m), LAMBDA r : r.amount)),
             fraud_rate |-> Rat(SumSeq(Column(group(m), LAMBDA r : r.isFraud)),
                                Len(group(m)))]
        stats == [k \in 1..Len(keys) |-> stat(keys[k])]
    IN  IF "isFraud" \notin df.cols THEN Outcome(c.shared, "KeyError", None)
        ELSE IF \E k \in 1..Len(keys) : stats[k].total_amount < 0
        THEN Outcome(c.shared, "ValidationError", None)
        ELSE Outcome(c.shared, "none",
                     SortedDescending(stats, LAMBDA a, b : a.count < b.count))

\* the calendar day of a timestamp
DateOnly(date) == date \div 100

\* mutant: the first n rows are kept
FrameHead(s, n) == IF n < Len(s) THEN SubSeq(s, 1, n) ELSE s

\* DataFrame.tail(n), n positive: the last n rows, all of them when there
\* are fewer
FrameTail(s, n) ==
    IF n < Len(s) THEN SubSeq(s, Len(s) - n + 1, Len(s)) ELSE s

\* get_daily_stats(limit)
GetDailyStats(t, limit) ==
    LET c1 == ParseIfText(CopyFrame(FrameOf(t)))
        c == AssignCols(c1, [c1.tbl EXCEPT !.cols = @ \cup {"date_only"}])
        df == c.tbl
        days == SortedInts(Uniq(Column(df.rows, LAMBDA r : DateOnly(r.date))))
        group(d) == SelectSeq(df.rows, LAMBDA r : DateOnly(r.date) = d)
        stat(d) ==
            [step |-> d,
             count |-> Len(group(d)),
             avg_amount |-> Mean(Column(group(d), LAMBDA r : r.amount)),
             total_amount |-> SumSeq(Column(group(d), LAMBDA r : r.amount)),
             fraud_count |-> SumSeq(Column(group(d), LAMBDA r : r.isFraud))]
        grouped == [k \in 1..Len(days) |-> stat(days[k])]
        tail == IF limit > 0 THEN FrameTail(grouped, limit) ELSE grouped
    IN  IF "isFraud" \notin df.cols THEN Outcome(c.shared, "KeyError", None)
        ELSE IF \E k \in 1..Len(tail) : tail[k].total_amount < 0
        THEN Outcome(c.shared, "ValidationError", None)
        ELSE Outcome(c.shared, "none", tail)

----------------------------------------------------------------------------
\* FraudDetectionService

\* mutant: the amount is summed over every record
GetFraudSummaryAllAmounts(t) ==
    LET c == FrameOf(t)
        total_transactions == Len(t.rows)
        total_frauds == SumSeq(Column(t.rows, LAMBDA r : r.isFraud))
        total_fraud_amount ==
            SumSeq(Column(t.rows, LAMBDA r : AmountOf(t, r)))
    IN  IF "isFraud" \notin t.cols THEN Outcome(c.shared, "KeyError", None)
        ELSE IF total_fraud_amount < 0
        THEN Outcome(c.shared, "ValidationError", None)
        ELSE Outcome(c.shared, "none",
                     [total_frauds |-> total_frauds,
                      flagged |-> total_frauds,
                      fraud_rate |-> IF total_transactions > 0
                                     THEN Rat(total_frauds, total_transactions)
                                     ELSE Rat(0, 1),
                      total_fraud_amount |-> total_fraud_amount])

\* get_fraud_summary()
GetFraudSummary(t) ==
    LET c == FrameOf(t)
        total_transactions == Len(t.rows)
        total_frauds == SumSeq(Column(t.rows, LAMBDA r : r.isFraud))
        fraud_rows == SelectSeq(t.rows, LAMBDA r : r.isFraud = 1)
        total_fraud_amount ==
            SumSeq(Column(fraud_rows, LAMBDA r : AmountOf(t, r)))
    IN  IF "isFraud" \notin t.cols THEN Outcome(c.shared, "KeyError", None)
        ELSE IF total_fraud_amount < 0
        THEN Outcome(c.shared, "ValidationError", None)
        ELSE Outcome(c.shared, "none",
                     [total_frauds |-> total_frauds,
                      flagged |-> total_frauds,
                      fraud_rate |-> IF total_transactions > 0
                                     THEN Rat(total_frauds, total_transactions)
                                     ELSE Rat(0, 1),
                      total_fraud_amount |-> total_fraud_amount])

\* get_fraud_by_type()
GetFraudByType(t) ==
    LET c == FrameOf(t)
        keys == MethodKeys(t)
        group(m) == SelectSeq(t.rows, LAMBDA r : r.use_chip = m)
        stat(m) ==
            [type |-> m,
             fraud_rate |-> Rat(SumSeq(Column(group(m), LAMBDA r : r.isFraud)),
                                Len(group(m))),
             fraud_count |-> SumSeq(Column(group(m), LAMBDA r : r.isFraud)),
             total_count |-> Len(group(m))]
        stats == [k \in 1..Len(keys) |-> stat(keys[k])]
    IN  IF "isFraud" \notin t.cols THEN Outcome(c.shared, "KeyError", None)
        ELSE Outcome(c.shared, "none",
                     SortedDescending(stats, LAMBDA a, b :
                         RatLess(a.fraud_rate, b.fraud_rate)))

\* 'x' in s: s contains x, letter case kept
InStr(x, s) ==
    \E k \in 0..(Len(s) - Len(x)) : \A j \in 1..Len(x) : x[j] = s[k + j]

risky_mcc == {5999, 5815, 5962, 5912}

risky_states == {"CA", "FL", "NY", "TX"}

\* the score of predict_fraud in tenths; the float additions of the code
\* give 0.5 and 1.0 exactly where the tenths add up to 5 and 10
Score(request) ==
    (IF InStr(Online, request.use_chip) THEN 3
     ELSE IF InStr(Chip, request.use_chip) THEN 1 ELSE 0)
    + (IF request.amount > 1000 THEN 3 ELSE 0)
    + (IF request.amount > 5000 THEN 2 ELSE 0)
    + (IF request.mcc \in risky_mcc THEN 2 ELSE 0)
    + (IF request.merchant_state \in risky_states THEN 1 ELSE 0)

\* mutant: a probability of one half counts as fraud
PredictFraudFromHalf(request) ==
    LET score == Score(request)
        probability == IF score < 10 THEN score ELSE 10
    IN  [isFraud |-> probability >= 5, probability |-> Rat(probability, 10)]

\* predict_fraud(request)
PredictFraud(request) ==
    LET score == Score(request)
        probability == IF score < 10 THEN score ELSE 10
    IN  [isFraud |-> probability > 5, probability |-> Rat(probability, 10)]

----------------------------------------------------------------------------
\* CustomerService

\* get_customers(page, limit)
GetCustomers(t, page, limit) ==
    LET c == FrameOf(t)
        unique_customers ==
            SortedInts(Uniq(Column(t.rows, LAMBDA r : r.client_id)))
        start_idx == StartIdx(page, limit)
        end_idx == start_idx + limit
        slice == PySlice(unique_customers, start_idx, end_idx)
    IN  Outcome(c.shared, "none",
                [page |-> page, limit |-> limit,
                 total |-> Len(unique_customers),
                 customers |-> [i \in 1..Len(slice) |-> IntToStr(slice[i])],
                 ws |-> unique_customers])

\* get_customer_profile(customer_id)
GetCustomerProfile(t, customer_id) ==
    LET c == ParseIfText(CopyFrame(FrameOf(t)))
        customer_df == SelectSeq(c.tbl.rows, LAMBDA r : r.client_id = customer_id)
        total_amount == SumSeq(Column(customer_df, LAMBDA r : r.amount))
        fraud_count == SumSeq(Column(customer_df, LAMBDA r : r.isFraud))
    IN  IF customer_df = <<>> THEN Outcome(c.shared, "ValueError", None)
        ELSE IF "isFraud" \notin c.tbl.cols
        THEN Outcome(c.shared, "KeyError", None)
        ELSE IF total_amount < 0
        THEN Outcome(c.shared, "ValidationError", None)
        ELSE Outcome(c.shared, "none",
                     [id |-> IntToStr(customer_id),
                      transactions_count |-> Len(customer_df),
                      avg_amount |-> Rat(total_amount, Len(customer_df)),
                      total_amount |-> total_amount,
                      fraudulent |-> fraud_count > 0,
                      fraud_count |-> fraud_count])

\* the groupby of get_top_customers: one row per client_id, keys sorted
CustomerTotals(df) ==
    LET ids == SortedInts(Uniq(Column(df.rows, LAMBDA r : r.client_id)))
        group(k) == SelectSeq(df.rows, LAMBDA r : r.client_id = k)
    IN  [i \in 1..Len(ids) |->
           [id |-> ids[i],
            total_amount |-> SumSeq(Column(group(ids[i]), LAMBDA r : r.amount)),
            transactions_count |-> Len(group(ids[i]))]]

\* str(row['id']) of a row that iterrows() yields: the row is one Series,
\* of floats when total_amount is a float column, and the int key then
\* prints as "1.0"
RowKeyText(k, isFloat) ==
    IF isFloat THEN IntToStr(k) \o <<".", "0">> ELSE IntToStr(k)

\* get_top_customers(n), for one of the orders q sort_values may give
GetTopCustomers(t, n, q) ==
    LET c == ParseIfText(CopyFrame(FrameOf(t)))
        customer_totals == CustomerTotals(c.tbl)
        sorted == [k \in 1..Len(customer_totals) |-> customer_totals[q[k]]]
        top == PySlice(sorted, 0, n)
    IN  IF \E k \in 1..Len(top) : top[k].total_amount < 0
        THEN Outcome(c.shared, "ValidationError", None)
        ELSE Outcome(c.shared, "none",
                     [k \in 1..Len(top) |->
                        [id |-> RowKeyText(top[k].id, t.amountStr),
                         total_amount |-> top[k].total_amount,
                         transactions_count |-> top[k].transactions_count]])

\* mutant: the groups are left in any order
TopOrdersUnsorted(t) ==
    LET n == Len(CustomerTotals(IF t.amountStr THEN ParseAmounts(t) ELSE t))
    IN  { q \in [1..n -> 1..n] : \A i, j \in 1..n : i # j => q[i] # q[j] }

\* the orders of the groups that sort_values('total_amount',
\* ascending=False) may give
TopOrders(t) ==
    DescendingOrders(Column(
        CustomerTotals(IF t.amountStr THEN ParseAmounts(t) ELSE t),
        LAMBDA g : g.total_amount))

----------------------------------------------------------------------------
\* SystemService

\* get_health(): status, dataset_loaded, dataset_size
GetHealth(d, h) ==
    LET dataset_loaded == IsLoadedValue(d)
    IN  [status |-> IF dataset_loaded THEN "ok" ELSE "degraded",
         dataset_loaded |-> dataset_loaded,
         dataset_size |-> IF dataset_loaded THEN Len(h[d].rows) ELSE 0]

----------------------------------------------------------------------------
\* The query operations, as the routes call them once the application has
\* started.  Each one reads the cached DataFrame through get_data().

Pages == 1..MaxPage

Limits == 1..MaxLimit

NoFilter == [k \in {} |-> None]

\* the filters of GET /transactions that are tried
ListFilters ==
    << NoFilter,
       [use_chip |-> <<"c", "h", "i", "p">>],
       [use_chip |-> <<"i", ".", "e">>],
       [is_fraud |-> 1],
       [min_amount |-> 5, max_amount |-> 1200],
       [merchant_state |-> "CA"],
       [is_fraud |-> 0, merchant_state |-> "CA", max_amount |-> 5],
       [use_chip |-> <<"I">>, min_amount |-> 5] >>

\* the TransactionSearch bodies that are tried
SearchCriteria ==
    << NoFilter,
       [use_chip |-> <<"O", "N">>],
       [isFraud |-> 0],
       [amount_range |-> <<0 - 100, 100>>],
       [amount_range |-> <<0 - 77, 5>>],
       [amount_range |-> <<5, 5>>],
       [amount_range |-> <<100, 0 - 100>>],
       [amount_range |-> <<5>>],
       [amount_range |-> <<0, 5, 1200>>],
       [client_id |-> 0],
       [client_id |-> 0, isFraud |-> 0],
       [client_id |-> 1, merchant_state |-> "ND"],
       [merchant_city |-> "LA"] >>

TransactionIds == {<<"7">>, <<"1", "2">>, <<"0", "7">>}

ClientIds == 0..MaxLimit

\* the files the application is started on
QueryEnvs ==
    { e \in Envs : e.labels.state = "absent"
                   \/ (e.labels.state = "ok" /\ <<"4">> \in DOMAIN e.labels.target) }

\* the application before lifespan() has run
QueryInit ==
    /\ fs \in QueryEnvs
    /\ _data = NoData
    /\ heap = <<>>
    /\ reads = 0
    /\ completed = FALSE
    /\ dropped = NoData
    /\ thr = [t \in Threads |-> IdleFrame]
    /\ last = [Idle EXCEPT !.op = "startup"]
    /\ Unbuilt

\* mutant: lifespan() lets every error of load_data through
LifespanCaughtNothing == {}

\* the errors of load_data that lifespan() catches
LifespanCaught == {"FileNotFoundError"}

\* lifespan(): data_loader.load_data() under except FileNotFoundError; any
\* other error ends the application before it serves a request
Lifespan ==
    /\ last.op = "startup"
    /\ LET r == RunLoad(Shared, NewFrame(None))
       IN  /\ r.L.exc \in {"none"} \cup LifespanCaught
           /\ _data' = r.S.data
           /\ heap' = r.S.heap
           /\ reads' = r.S.reads
           /\ completed' = (r.L.exc = "none")
    /\ last' = Idle
    /\ UNCHANGED <<fs, _instance, loaders, data_loader, dropped, thr>>

\* one service call: get_data() raises RuntimeError without a cached frame;
\* otherwise Run gives the outcome on the cached DataFrame
Serve(op, arg, Run(_)) ==
    /\ IF _data = NoData
       THEN /\ heap' = heap
            /\ last' = [op |-> op, arg |-> arg, exc |-> GetDataExc(_data),
                        ret |-> None, pre |-> Pre]
       ELSE LET out == Run(heap[_data])
            IN  /\ heap' = [heap EXCEPT ![_data] = out.shared]
                /\ last' = [op |-> op, arg |-> arg, exc |-> out.exc,
                            ret |-> out.ret, pre |-> Pre]
    /\ UNCHANGED <<fs, _instance, loaders, data_loader, _data, reads, completed, dropped, thr>>

\* the rows of the cached DataFrame, none without one
CachedRows == IF _data = NoData THEN <<>> ELSE heap[_data].rows

ListTransactions(page, limit, i) ==
    /\ last.op = "idle"
    /\ Serve("get_transactions",
             [page |-> page, limit |-> limit, filter |-> ListFilters[i]],
             LAMBDA t : GetTransactions(t, page, limit, ListFilters[i]))

\* mutant: the order of the two bounds is not checked
RangeInvalidLengthOnly(v) == Len(v) # 2

\* TransactionSearch.validate_amount_range: ValueError unless v holds two
\* values, the first not above the second
RangeInvalid(v) == Len(v) # 2 \/ v[1] > v[2]

\* POST /transactions/search: the body is validated as a TransactionSearch
\* before search_transactions is called
Search(page, limit, i) ==
    /\ last.op = "idle"
    /\ IF Given(SearchCriteria[i], "amount_range")
          /\ RangeInvalid(SearchCriteria[i].amount_range)
       THEN /\ last' = [op |-> "TransactionSearch",
                        arg |-> [page |-> page, limit |-> limit,
                                 filter |-> SearchCriteria[i]],
                        exc |-> "ValidationError", ret |-> None, pre |-> Pre]
            /\ UNCHANGED <<fs, _instance, loaders, data_loader, _data, heap, reads, completed, dropped, thr>>
       ELSE Serve("search_transactions",
                  [page |-> page, limit |-> limit, filter |-> SearchCriteria[i]],
                  LAMBDA t : SearchTransactions(t, page, limit, SearchCriteria[i]))

ById(id) ==
    /\ last.op = "idle"
    /\ Serve("get_transaction_by_id", id,
             LAMBDA t : GetTransactionById(t, id))

Delete(id) ==
    /\ last.op = "idle"
    /\ Serve("delete_transaction", id, LAMBDA t : DeleteTransaction(t, id))

ByClient(k) ==
    /\ last.op = "idle"
    /\ Serve("get_transactions_by_client", k,
             LAMBDA t : GetTransactionsByClient(t, k))

Methods ==
    /\ last.op = "idle"
    /\ Serve("get_transaction_methods", None, GetTransactionMethods)

Recent(n) ==
    /\ last.op = "idle"
    /\ \E q \in DescendingOrders(Column(CachedRows, LAMBDA r : r.date)) :
          Serve("get_recent_transactions", n,
                LAMBDA t : GetRecentTransactions(t, n, q))

Overview ==
    /\ last.op = "idle"
    /\ Serve("get_overview", None, GetOverview)

AmountDistribution(num_bins) ==
    /\ last.op = "idle"
    /\ Serve("get_amount_distribution", num_bins,
             LAMBDA t : GetAmountDistribution(t, num_bins))

StatsByType ==
    /\ last.op = "idle"
    /\ Serve("get_stats_by_type", None, GetStatsByType)

DailyStats(limit) ==
    /\ last.op = "idle"
    /\ Serve("get_daily_stats", limit, LAMBDA t : GetDailyStats(t, limit))

FraudSummary ==
    /\ last.op = "idle"
    /\ Serve("get_fraud_summary", None, GetFraudSummary)

FraudByType ==
    /\ last.op = "idle"
    /\ Serve("get_fraud_by_type", None, GetFraudByType)

Customers(page, limit) ==
    /\ last.op = "idle"
    /\ Serve("get_customers", [page |-> page, limit |-> limit],
             LAMBDA t : GetCustomers(t, page, limit))

CustomerProfile(k) ==
    /\ last.op = "idle"
    /\ Serve("get_customer_profile", k, LAMBDA t : GetCustomerProfile(t, k))

TopCustomers(n) ==
    /\ last.op = "idle"
    /\ \E q \in TopOrders([amountStr |-> _data # NoData /\ heap[_data].amountStr,
                           rows |-> CachedRows]) :
          Serve("get_top_customers", n, LAMBDA t : GetTopCustomers(t, n, q))

\* the FraudPredictionRequest bodies that are tried
PredictionRequests ==
    [amount : {5, 1000, 1001, 5000, 5001},
     use_chip : {Online, Chip, Swipe, <<"o", "n", "l", "i", "n", "e">>,
                 Chip \o <<" ">> \o Online},
     merchant_state : {"CA", "ND"},
     mcc : {5999, 5411}]

\* POST /fraud/predict: predict_fraud reads the request only
Predict(request) ==
    /\ last.op = "idle"
    /\ last' = [op |-> "predict_fraud", arg |-> request, exc |-> "none",
                ret |-> PredictFraud(request), pre |-> Pre]
    /\ UNCHANGED <<fs, _instance, loaders, data_loader, _data, heap, reads, completed, dropped, thr>>

\* SystemService.get_health(): reads is_loaded() and the size, never raises
Health ==
    /\ last.op = "idle"
    /\ last' = [op |-> "get_health", arg |-> None, exc |-> "none",
                ret |-> GetHealth(_data, heap), pre |-> Pre]
    /\ UNCHANGED <<fs, _instance, loaders, data_loader, _data, heap, reads, completed, dropped, thr>>

QueryNext ==
    \/ Lifespan
    \/ \E page \in Pages, limit \in Limits, i \in DOMAIN ListFilters :
          ListTransactions(page, limit, i)
    \/ \E page \in Pages, limit \in Limits, i \in DOMAIN SearchCriteria :
          Search(page, limit, i)
    \/ \E id \in TransactionIds : ById(id)
    \/ \E id \in TransactionIds : Delete(id)
    \/ \E k \in ClientIds : ByClient(k)
    \/ Methods
    \/ \E n \in Limits : Recent(n)
    \/ Overview
    \/ \E num_bins \in MinBins..MaxBins : AmountDistribution(num_bins)
    \/ StatsByType
    \/ \E limit \in 0..MaxLimit : DailyStats(limit)
    \/ FraudSummary
    \/ FraudByType
    \/ \E page \in Pages, limit \in Limits : Customers(page, limit)
    \/ \E k \in ClientIds : CustomerProfile(k)
    \/ \E n \in Limits : TopCustomers(n)
    \/ Health
    \/ \E request \in PredictionRequests : Predict(request)
    \/ Respond

SpecQuery == QueryInit /\ [][QueryNext]_vars

----------------------------------------------------------------------------
\* Properties of the cache.

\* the text of the ids of RowPool, written out
IdText ==
    (7 :> <<"7">>) @@ (12 :> <<"1", "2">>) @@ (30 :> <<"3", "0">>)
        @@ (4 :> <<"4">>)

\* a load_data call that found no cached frame
FreshLoad == last.op = "load_data" /\ last.pre.data = NoData

\* the primary source of a call with argument p is missing
PrimaryMissing(p) == p = MissingPath \/ (p = None /\ ~fs.defaultExists)

ExpectedPath(p) == IF p = None THEN DefaultPath ELSE p

\* the label the file gives the source row with this id: 1 for "Yes", else 0
ExpectedLabel(id) ==
    IF IdText[id] \in DOMAIN fs.labels.target
       /\ fs.labels.target[IdText[id]] = "Yes"
    THEN 1 ELSE 0

\* the cached frame has an isFraud column holding want(i) in row i
FraudColumnIs(want(_)) ==
    /\ _data # NoData
    /\ "isFraud" \in heap[_data].cols
    /\ Len(heap[_data].rows) = Len(fs.csv)
    /\ \A i \in 1..Len(fs.csv) : heap[_data].rows[i].isFraud = want(i)

\* C1: once a frame is cached, every load_data call, whatever its path
\* argument, returns that same frame unchanged and does not read the source;
\* the reads since the last clear_cache stay at one.
C1_LoadIdempotent ==
    /\ (last.op = "load_data" /\ last.pre.data # NoData) =>
           /\ last.exc = "none"
           /\ last.ret = last.pre.data
           /\ _data = last.pre.data
           /\ heap = last.pre.heap
           /\ reads = last.pre.reads
    /\ _data # NoData => reads = 1

C1_Witness ==
    /\ last.op = "load_data"
    /\ last.pre.data # NoData
    /\ last.arg = MissingPath
    /\ last.ret = last.pre.data
    /\ reads = 1

\* C2: when several callers race on load_data with no frame cached, at most
\* one of them reads the source, and the callers that passed the same path
\* get the same frame or the same failure.
C2_SingleLoad ==
    /\ reads <= 1
    /\ \A t, u \in Threads :
           (thr[t].pc = "done" /\ thr[u].pc = "done" /\ thr[t].arg = thr[u].arg)
               => (thr[t].ret = thr[u].ret /\ thr[t].exc = thr[u].exc)

\* C3: get_data raises RuntimeError whenever no load_data call has returned
\* normally since the start or the last clear_cache.
C3_NotReadyUntilLoaded ==
    (last.op = "get_data" /\ ~last.pre.completed) => last.exc = "RuntimeError"

\* C4: a load_data call that finds no cached frame raises FileNotFoundError
\* exactly when the primary source is missing (whatever the label file); the
\* error names the expected path and the cache stays unloaded.
C4_NotFoundIffSourceMissing ==
    FreshLoad =>
        /\ (last.exc = "FileNotFoundError") <=> PrimaryMissing(last.arg)
        /\ last.exc = "FileNotFoundError" =>
               /\ last.path = ExpectedPath(last.arg)
               /\ _data = NoData
               /\ ~IsLoadedValue(_data)
               /\ GetDataExc(_data) = "RuntimeError"

C4_Witness ==
    /\ FreshLoad
    /\ last.arg = None
    /\ last.exc = "FileNotFoundError"
    /\ last.path = DefaultPath
    /\ _data = NoData

\* C5: with the label file absent and a well-formed source present, load_data
\* returns normally and every record of the cached frame has isFraud = 0.
C5_NoLabelsAllZero ==
    (FreshLoad /\ ~PrimaryMissing(last.arg) /\ fs.hasId
        /\ fs.labels.state = "absent")
    => (last.exc = "none" /\ last.ret = _data
        /\ FraudColumnIs(LAMBDA i : 0))

C5_Witness ==
    /\ FreshLoad
    /\ last.arg = None
    /\ fs.labels.state = "absent"
    /\ last.exc = "none"
    /\ Len(heap[_data].rows) >= 2
    /\ \A i \in 1..Len(heap[_data].rows) : heap[_data].rows[i].isFraud = 0

\* C6: when the label file is merged (a load from the default location that
\* finds it), a record labelled "Yes" gets isFraud = 1, one labelled "No" gets
\* 0, one without a label gets 0, and isFraud is 0 or 1 for every record; the
\* record's id is the text of the source's id.
C6_LabelMerge ==
    (FreshLoad /\ last.arg = None /\ last.exc = "none"
        /\ fs.labels.state = "ok")
    => /\ _data # NoData
       /\ "isFraud" \in heap[_data].cols
       /\ Len(heap[_data].rows) = Len(fs.csv)
       /\ \A i \in 1..Len(fs.csv) :
             LET k == IdText[fs.csv[i].id]
                 v == heap[_data].rows[i].isFraud
                 target == fs.labels.target
             IN  /\ heap[_data].rows[i].id = k
                 /\ v \in {0, 1}
                 /\ (k \in DOMAIN target /\ target[k] = "Yes") => v = 1
                 /\ (k \in DOMAIN target /\ target[k] = "No") => v = 0
                 /\ k \notin DOMAIN target => v = 0

C6_Witness ==
    /\ FreshLoad
    /\ last.arg = None
    /\ last.exc = "none"
    /\ fs.labels.state = "ok"
    /\ \E i, j \in 1..Len(fs.csv) :
          /\ heap[_data].rows[i].isFraud = 1
          /\ heap[_data].rows[j].isFraud = 0
          /\ IdText[fs.csv[j].id] \in DOMAIN fs.labels.target

\* C7 as stated: whether load_data is given a path or uses the default
\* location, a label file that is found is merged into isFraud.
C7_LabelsMergedForAnyPath ==
    (FreshLoad /\ last.exc = "none" /\ fs.labels.state = "ok")
    => FraudColumnIs(LAMBDA i : ExpectedLabel(fs.csv[i].id))

\* C7 amended: the label file is read only by a load from the default
\* location, which merges it when found; a load from an explicitly given
\* path reads no label file and gives every record isFraud = 0.
C7_LabelsMergedForDefaultPathOnly ==
    (FreshLoad /\ last.exc = "none" /\ fs.labels.state = "ok")
    => IF last.arg = None
       THEN FraudColumnIs(LAMBDA i : ExpectedLabel(fs.csv[i].id))
       ELSE FraudColumnIs(LAMBDA i : 0)

C7_Witness ==
    /\ FreshLoad
    /\ last.arg = GivenPath
    /\ last.exc = "none"
    /\ fs.labels.state = "ok"
    /\ \E i \in 1..Len(fs.csv) :
          ExpectedLabel(fs.csv[i].id) = 1 /\ heap[_data].rows[i].isFraud = 0

\* C8: clear_cache drops the cached frame, so that is_loaded is false right
\* after it, and the next load_data reads the source again and caches a new
\* frame, not the dropped one.
C8_ClearForcesReload ==
    /\ last.op = "clear_cache" => (_data = NoData /\ ~IsLoadedValue(_data))
    /\ (FreshLoad /\ last.pre.dropped # NoData
            /\ last.exc # "FileNotFoundError")
       => /\ reads = last.pre.reads + 1
          /\ Len(heap) = Len(last.pre.heap) + 1
          /\ _data = Len(heap)
          /\ _data # last.pre.dropped
          /\ last.exc = "none" => last.ret = _data

C8_Witness ==
    /\ FreshLoad
    /\ last.pre.dropped # NoData
    /\ last.exc = "none"
    /\ last.ret # last.pre.dropped
    /\ reads = 1
    /\ Len(heap) = 2

----------------------------------------------------------------------------
\* Properties of the query operations.

QueryOps ==
    {"get_transactions", "search_transactions", "get_transaction_by_id",
     "get_transactions_by_client", "get_recent_transactions",
     "get_transaction_methods", "delete_transaction", "get_overview",
     "get_amount_distribution", "get_stats_by_type", "get_daily_stats",
     "get_fraud_summary", "get_fraud_by_type", "get_customers",
     "get_customer_profile", "get_top_customers"}

PagedOps == {"get_transactions", "search_transactions", "get_customers"}

\* the table load_data() builds from the files: the rows of the source with
\* text ids and the labels of the label file
TableFromLoad ==
    [ReadCsv EXCEPT
        !.cols = @ \cup {"isFraud"},
        !.idStr = TRUE,
        !.rows = [i \in 1..Len(fs.csv) |->
                    [@[i] EXCEPT !.id = IdText[fs.csv[i].id],
                                 !.isFraud = ExpectedLabel(fs.csv[i].id)]]]

\* C9: no query operation (list, search, get-by-id, get-by-client, recent,
\* methods, delete, overview, histogram, stats-by-method, daily-stats,
\* fraud-summary, fraud-by-method, customer, top-customer), whether it
\* returns or raises, changes the cached snapshot: each call leaves the
\* cache and every DataFrame as it found them, and after any sequence of
\* calls the cached table is the one load built, with the same rows, the same
\* representation of the amounts and the same columns.
C9_QueriesLeaveSnapshot ==
    /\ last.op \in QueryOps =>
          /\ _data = last.pre.data
          /\ heap = last.pre.heap
    /\ _data # NoData => heap[_data] = TableFromLoad

\* a daily-stats call has answered from a snapshot whose amounts are text
C9_Witness ==
    /\ last.op = "get_daily_stats"
    /\ last.exc = "none"
    /\ _data # NoData
    /\ heap[_data].amountStr
    /\ Len(heap[_data].rows) = MaxRows
    /\ Len(last.ret) >= 1

\* the item a page shows for an element of the working set
PageItem(op, w) ==
    IF op = "get_customers" THEN IntToStr(w)
    ELSE ToTransaction([cols |-> heap[_data].cols, amountStr |-> FALSE], w)

Clip(x, total) == IF x < 0 THEN 0 ELSE IF x > total THEN total ELSE x

\* C10: a paginated operation (list, search, customers) that returns gives
\* total = the size of the whole filtered working set and, as its page, the
\* elements at offsets (page-1)*limit .. (page-1)*limit+limit-1 clipped to
\* [0, total), in order; a page past the end is an empty slice; and the only
\* error of such a call is that of a method filter on a snapshot without any
\* method text, never one of the page.
C10_PageSlice ==
    (last.op \in PagedOps /\ last.pre.data # NoData) =>
        /\ last.exc = "none" =>
              LET total == last.ret.total
                  items == IF last.op = "get_customers" THEN last.ret.customers
                           ELSE last.ret.transactions
                  lo == Clip((last.arg.page - 1) * last.arg.limit, total)
                  hi == Clip((last.arg.page - 1) * last.arg.limit
                             + last.arg.limit, total)
              IN  /\ total = Len(last.ret.ws)
                  /\ Len(items) = hi - lo
                  /\ \A k \in 1..(hi - lo) :
                        items[k] = PageItem(last.op, last.ret.ws[lo + k])
        /\ last.exc # "none" =>
              /\ last.op # "get_customers"
              /\ last.exc = "AttributeError"
              /\ Truthy(last.arg.filter, "use_chip")
              /\ ~UseChipIsText(heap[_data])

\* a filtered list call for a page past the end: the total counts the rows
\* that passed the filter and the slice is empty
C10_Witness ==
    /\ last.op = "get_transactions"
    /\ last.exc = "none"
    /\ _data # NoData
    /\ last.arg.page >= 2
    /\ last.ret.total >= 1
    /\ last.ret.total < Len(heap[_data].rows)
    /\ (last.arg.page - 1) * last.arg.limit >= last.ret.total
    /\ last.ret.transactions = <<>>

\* the items of the page that a paginated call returned
PageItems ==
    IF last.op = "get_customers" THEN last.ret.customers
    ELSE last.ret.transactions

\* the items of page p of the paginated call that answered last, asked
\* again with the same limit and filter
PageAgain(p) ==
    LET t == heap[_data]
        a == last.arg
    IN  IF last.op = "get_transactions"
        THEN GetTransactions(t, p, a.limit, a.filter).ret.transactions
        ELSE IF last.op = "search_transactions"
        THEN SearchTransactions(t, p, a.limit, a.filter).ret.transactions
        ELSE GetCustomers(t, p, a.limit).ret.customers

RECURSIVE ConcatPages(_, _)
ConcatPages(p, n) ==
    IF p > n THEN <<>> ELSE PageAgain(p) \o ConcatPages(p + 1, n)

CeilDiv(a, b) == (a + b - 1) \div b

\* C11: a page returned by a paginated operation for page >= 1 and
\* limit >= 1 has at most limit items, and the pages 1..ceil(total/limit)
\* for the same limit and filter, one after the other, are the whole filtered
\* set in its order, nothing twice and nothing left out.
C11_PagesRebuildSet ==
    (last.op \in PagedOps /\ last.exc = "none" /\ last.pre.data # NoData) =>
        /\ Len(PageItems) <= last.arg.limit
        /\ ConcatPages(1, CeilDiv(last.ret.total, last.arg.limit))
              = [k \in 1..Len(last.ret.ws) |-> PageItem(last.op, last.ret.ws[k])]

\* a filtered list call whose working set takes several pages
C11_Witness ==
    /\ last.op = "get_transactions"
    /\ last.exc = "none"
    /\ DOMAIN last.arg.filter # {}
    /\ last.ret.total = MaxRows
    /\ last.arg.limit = 1
    /\ last.arg.page = MaxRows
    /\ Len(last.ret.transactions) = 1

\* text contains pat as a literal substring, ignoring case
ContainsLiterally(text, pat) ==
    \E k \in 0..(Len(text) - Len(pat)) :
        \A j \in 1..Len(pat) : Lower(pat[j]) = Lower(text[k + j])

\* the method of a snapshot row is present and contains pat literally
MethodHas(r, pat) == r.use_chip # NaN /\ ContainsLiterally(r.use_chip, pat)

\* row r of the snapshot t satisfies every filter that f provides
SatisfiesAll(t, r, f) ==
    /\ Truthy(f, "use_chip") => MethodHas(r, f.use_chip)
    /\ Given(f, "is_fraud") => r.isFraud = f.is_fraud
    /\ Given(f, "min_amount") => AmountOf(t, r) >= f.min_amount
    /\ Given(f, "max_amount") => AmountOf(t, r) <= f.max_amount
    /\ Given(f, "merchant_state") => r.merchant_state = f.merchant_state

\* the snapshot rows whose id a returned record carries
RowsWithId(t, id) == {i \in 1..Len(t.rows) : t.rows[i].id = id}

\* C12: a list call that returns has ANDed the provided filters: every
\* returned record is a snapshot record that satisfies every provided filter
\* (is_fraud equal, min_amount <= amount <= max_amount, merchant_state equal,
\* method containing the filter text), total is the number of snapshot
\* records satisfying all of them whatever page and limit are, and without
\* any filter total is the record count that stats overview reports.
C12_FiltersAnded ==
    (last.op = "get_transactions" /\ last.exc = "none") =>
        LET t == heap[_data]
            f == last.arg.filter
        IN  /\ \A k \in 1..Len(last.ret.transactions) :
                  \E i \in RowsWithId(t, last.ret.transactions[k].id) :
                      SatisfiesAll(t, t.rows[i], f)
            /\ last.ret.total
                  = Cardinality({i \in 1..Len(t.rows) : SatisfiesAll(t, t.rows[i], f)})
            /\ (DOMAIN f = {} /\ GetOverview(t).exc = "none") =>
                  last.ret.total = GetOverview(t).ret.total_transactions

\* the ids of a sequence of rows, in order
IdsOf(rows) == [k \in 1..Len(rows) |-> rows[k].id]

\* C13: the method filter of list and search keeps a record if and only if
\* its method is present and contains the filter text as a literal
\* substring, ignoring case: a call whose only filter is a non-empty method
\* text has as its working set exactly those records, in snapshot order.
C13_MethodFilterLiteral ==
    (/\ last.op \in {"get_transactions", "search_transactions"}
     /\ last.exc = "none"
     /\ DOMAIN last.arg.filter = {"use_chip"}) =>
        IdsOf(last.ret.ws)
           = IdsOf(SelectSeq(heap[_data].rows,
                             LAMBDA r : MethodHas(r, last.arg.filter.use_chip)))

\* row r of the snapshot t satisfies every criterion that f carries
SatisfiesCriteria(t, r, f) ==
    /\ Truthy(f, "use_chip") => MethodHas(r, f.use_chip)
    /\ Given(f, "isFraud") => r.isFraud = f.isFraud
    /\ Given(f, "amount_range") =>
          /\ AmountOf(t, r) >= f.amount_range[1]
          /\ AmountOf(t, r) <= f.amount_range[2]
    /\ Given(f, "client_id") => r.client_id = f.client_id
    /\ Given(f, "merchant_state") => r.merchant_state = f.merchant_state
    /\ Given(f, "merchant_city") => r.merchant_city = f.merchant_city

\* C14: a search whose criteria carry a client_id c (any integer, 0
\* included) or a merchant_city has a working set in which every record has
\* that client_id and that city, and total counts exactly the snapshot
\* records that match them and the other criteria.
C14_ExactClientAndCity ==
    (/\ last.op = "search_transactions"
     /\ last.exc = "none"
     /\ ~Given(last.arg.filter, "use_chip")
     /\ Given(last.arg.filter, "client_id")
        \/ Given(last.arg.filter, "merchant_city")) =>
        LET t == heap[_data]
            f == last.arg.filter
        IN  /\ \A k \in 1..Len(last.ret.ws) :
                  /\ Given(f, "client_id") => last.ret.ws[k].client_id = f.client_id
                  /\ Given(f, "merchant_city") =>
                        last.ret.ws[k].merchant_city = f.merchant_city
            /\ last.ret.total
                  = Cardinality({i \in 1..Len(t.rows) :
                                    SatisfiesCriteria(t, t.rows[i], f)})

\* C15: amount_range = [min, max] of a search is an inclusive filter and is
\* validated before the search runs: criteria whose range has not exactly
\* two values or has min > max are rejected and never reach the search; a
\* search that runs with a range returns only records with
\* min <= amount <= max and keeps every snapshot record in the range,
\* amounts equal to min or max included, that matches the other criteria.
C15_AmountRangeInclusive ==
    /\ last.op = "TransactionSearch" =>
          /\ last.exc = "ValidationError"
          /\ Given(last.arg.filter, "amount_range")
          /\ \/ Len(last.arg.filter.amount_range) # 2
             \/ last.arg.filter.amount_range[1] > last.arg.filter.amount_range[2]
          /\ heap = last.pre.heap
    /\ (last.op = "search_transactions" /\ Given(last.arg.filter, "amount_range")) =>
          LET t == heap[_data]
              f == last.arg.filter
          IN  /\ Len(f.amount_range) = 2
              /\ f.amount_range[1] <= f.amount_range[2]
              /\ (last.exc = "none" /\ ~Given(f, "use_chip")) =>
                    /\ \A k \in 1..Len(last.ret.transactions) :
                          /\ last.ret.transactions[k].amount >= f.amount_range[1]
                          /\ last.ret.transactions[k].amount <= f.amount_range[2]
                    /\ IdsOf(last.ret.ws)
                          = IdsOf(SelectSeq(t.rows,
                                    LAMBDA r : SatisfiesCriteria(t, r, f)))

\* a search with a range has kept a record whose amount, stored as text, is
\* the lower bound and one whose amount is the upper bound
C15_Witness ==
    /\ last.op = "search_transactions"
    /\ last.exc = "none"
    /\ Given(last.arg.filter, "amount_range")
    /\ heap[_data].amountStr
    /\ last.arg.limit = MaxLimit
    /\ \E k \in 1..Len(last.ret.transactions) :
          last.ret.transactions[k].amount = last.arg.filter.amount_range[1]
    /\ \E k \in 1..Len(last.ret.transactions) :
          last.ret.transactions[k].amount = last.arg.filter.amount_range[2]
    /\ last.arg.filter.amount_range[1] < last.arg.filter.amount_range[2]

\* the snapshot has a record with this id
IdPresent(t, id) == \E i \in 1..Len(t.rows) : t.rows[i].id = id

\* C16: get_transaction_by_id(X) on a loaded snapshot never raises; for an id
\* X present in the snapshot it returns a record whose id is X, the record
\* of the snapshot, and for an id not present it returns None.
C16_GetByIdRoundTrip ==
    (last.op = "get_transaction_by_id" /\ last.pre.data # NoData) =>
        LET t == heap[_data]
        IN  /\ last.exc = "none"
            /\ IF IdPresent(t, last.arg)
               THEN /\ last.ret.id = last.arg
                    /\ \E i \in RowsWithId(t, last.arg) :
                          last.ret = ToTransaction(t, t.rows[i])
               ELSE last.ret = None

\* the id asked for is that of the last record of a snapshot of several
C16_Witness ==
    /\ last.op = "get_transaction_by_id"
    /\ last.exc = "none"
    /\ _data # NoData
    /\ Len(heap[_data].rows) = MaxRows
    /\ heap[_data].rows[MaxRows].id = last.arg

\* C17: delete_transaction(id) on a loaded snapshot reports success exactly
\* when a record with that id exists, and removes nothing: the cache and
\* every DataFrame are as before the call, the cached table is still the one
\* load built, and the record is still what get-by-id returns.
C17_DeleteIsSimulated ==
    (last.op = "delete_transaction" /\ last.pre.data # NoData) =>
        LET t == heap[_data]
        IN  /\ last.exc = "none"
            /\ last.ret = IdPresent(last.pre.heap[last.pre.data], last.arg)
            /\ _data = last.pre.data
            /\ heap = last.pre.heap
            /\ t = TableFromLoad
            /\ last.ret => GetTransactionById(t, last.arg).ret.id = last.arg

\* a delete has reported success
C17_Witness ==
    /\ last.op = "delete_transaction"
    /\ last.exc = "none"
    /\ _data # NoData
    /\ last.ret = TRUE
    /\ Len(heap[_data].rows) = MaxRows

\* positions 1..n of the snapshot in descending date order, equal dates in
\* storage order
StableRecentOrder(rows) ==
    SortBy([i \in 1..Len(rows) |-> i],
           LAMBDA j, i : rows[j].date > rows[i].date
                         \/ (rows[j].date = rows[i].date /\ j < i))

\* C18: get_recent_transactions(n) returns min(n, total) records, those with
\* the most recent timestamps in descending timestamp order, records with
\* equal timestamps in their storage order.
C18_RecentStable ==
    (last.op = "get_recent_transactions" /\ last.exc = "none"
     /\ last.pre.data # NoData) =>
        LET t == heap[_data]
            n == IF last.arg < Len(t.rows) THEN last.arg ELSE Len(t.rows)
            order == StableRecentOrder(t.rows)
        IN  /\ Len(last.ret) = n
            /\ \A k \in 1..n : last.ret[k] = ToTransaction(t, t.rows[order[k]])

\* a ratio as a number in [0, 1]
InUnitInterval(q) == q.den > 0 /\ q.num >= 0 /\ q.num <= q.den

\* the number of fraudulent records of the snapshot
FraudCount(t) == Cardinality({i \in 1..Len(t.rows) : t.rows[i].isFraud = 1})

\* C19: the fraud_rate that stats overview and fraud summary return is in
\* [0, 1] and equals fraud_count / total; on an empty dataset both return,
\* with fraud_rate = 0.
C19_FraudRate ==
    (last.op \in {"get_overview", "get_fraud_summary"} /\ last.pre.data # NoData) =>
        LET t == heap[_data]
        IN  /\ last.exc = "none" =>
                  /\ InUnitInterval(last.ret.fraud_rate)
                  /\ last.ret.fraud_rate.num * Len(t.rows)
                        = FraudCount(t) * last.ret.fraud_rate.den
                        \/ Len(t.rows) = 0
            /\ Len(t.rows) = 0 =>
                  /\ last.exc = "none"
                  /\ last.ret.fraud_rate.num = 0

\* stats overview has answered on an empty dataset
C19_Witness ==
    /\ last.op = "get_overview"
    /\ last.exc = "none"
    /\ _data # NoData
    /\ Len(heap[_data].rows) = 0
    /\ last.ret.total_transactions = 0

\* the largest amount of the snapshot
MaxAmount(t) ==
    CHOOSE x \in {AmountOf(t, t.rows[i]) : i \in 1..Len(t.rows)} :
        \A i \in 1..Len(t.rows) : AmountOf(t, t.rows[i]) <= x

\* the smallest amount of the snapshot
MinAmount(t) ==
    CHOOSE x \in {AmountOf(t, t.rows[i]) : i \in 1..Len(t.rows)} :
        \A i \in 1..Len(t.rows) : AmountOf(t, t.rows[i]) >= x

\* the records of the snapshot whose amount is the largest
AtMaxAmount(t) ==
    Cardinality({i \in 1..Len(t.rows) : AmountOf(t, t.rows[i]) = MaxAmount(t)})

\* C20 as stated: the amount histogram for num_bins bins (from 5 up) has
\* num_bins labels and num_bins counts, the counts add up to the number of
\* transactions, and the largest amount is counted in the last bin.
C20_HistogramMaxInLastBin ==
    (last.op = "get_amount_distribution" /\ last.pre.data # NoData) =>
        LET t == heap[_data]
        IN  /\ last.exc = "none"
            /\ last.arg >= MinBins
            /\ Len(last.ret.bins) = last.arg
            /\ Len(last.ret.counts) = last.arg
            /\ SumSeq(last.ret.counts) = Len(t.rows)
            /\ Len(t.rows) > 0 => last.ret.counts[last.arg] >= AtMaxAmount(t)

\* C20, amended: the amount histogram for num_bins bins (from 5 up) has
\* num_bins labels and num_bins counts and the counts add up to the number
\* of transactions; when the amounts are not all equal the largest amount is
\* counted in the last bin, and when they are all equal the range is widened
\* by one half on each side and they are all counted in the bin at its
\* middle.
C20_HistogramCounts ==
    (last.op = "get_amount_distribution" /\ last.pre.data # NoData) =>
        LET t == heap[_data]
        IN  /\ last.exc = "none"
            /\ last.arg >= MinBins
            /\ Len(last.ret.bins) = last.arg
            /\ Len(last.ret.counts) = last.arg
            /\ SumSeq(last.ret.counts) = Len(t.rows)
            /\ (Len(t.rows) > 0 /\ MinAmount(t) < MaxAmount(t)) =>
                  last.ret.counts[last.arg] >= AtMaxAmount(t)
            /\ (Len(t.rows) > 0 /\ MinAmount(t) = MaxAmount(t)) =>
                  last.ret.counts[(last.arg \div 2) + 1] = Len(t.rows)

\* a histogram of text amounts that differ
C20_Witness ==
    /\ last.op = "get_amount_distribution"
    /\ last.exc = "none"
    /\ _data # NoData
    /\ heap[_data].amountStr
    /\ Len(heap[_data].rows) = MaxRows
    /\ \E i, j \in 1..MaxRows :
          AmountOf(heap[_data], heap[_data].rows[i])
             < AmountOf(heap[_data], heap[_data].rows[j])
    /\ last.arg = MaxBins

\* the clients that have records in the snapshot
ClientsOf(t) == {t.rows[i].client_id : i \in 1..Len(t.rows)}

\* the amounts of the records of client k, in storage order
AmountsOfClient(t, k) ==
    LET own == SelectSeq(t.rows, LAMBDA r : r.client_id = k)
    IN  [i \in 1..Len(own) |-> AmountOf(t, own[i])]

FraudAmounts(t) ==
    LET fraud == SelectSeq(t.rows, LAMBDA r : r.isFraud = 1)
    IN  [i \in 1..Len(fraud) |-> AmountOf(t, fraud[i])]

\* the snapshot of the scenario: five records with is_fraud 0, 1, 1, 0, 0
\* and amounts 9839.64, 181, 181, 1000, 5000; the first amount, which is
\* not fraudulent, is written to the nearest whole number
ScenarioAmounts == <<9840, 181, 181, 1000, 5000>>

ScenarioLabels == <<0, 1, 1, 0, 0>>

ScenarioTable ==
    [cols |-> BaseCols \cup {"isFraud"},
     idStr |-> TRUE,
     amountStr |-> FALSE,
     rows |-> [i \in 1..5 |->
                 [RowPool[1] EXCEPT !.id = IntToStr(i),
                                    !.amount = ScenarioAmounts[i]]
                    @@ [isFraud |-> ScenarioLabels[i]]]]

ClaimedScore(r) ==
    LET method == IF InStr(Online, r.use_chip) THEN 3
                  ELSE IF InStr(Chip, r.use_chip) THEN 1 ELSE 0
        amount == IF r.amount > 5000 THEN 5
                  ELSE IF r.amount > 1000 THEN 3 ELSE 0
        category == IF r.mcc \in {5999, 5815, 5962, 5912} THEN 2 ELSE 0
        state == IF r.merchant_state \in {"CA", "FL", "NY", "TX"} THEN 1 ELSE 0
    IN  method + amount + category + state

\* C23: predict_fraud depends on its request only: the probability is the
\* sum of the claim's weights capped at 1, always in [0, 1], and is_fraud
\* holds exactly when the probability is above 0.5; whether or not a
\* snapshot is cached, and without touching the cache.
C23_ScorerIsPure ==
    last.op = "predict_fraud" =>
        LET s == ClaimedScore(last.arg)
            p == last.ret.probability
        IN  /\ last.exc = "none"
            /\ InUnitInterval(p)
            /\ p.num * 10 = (IF s < 10 THEN s ELSE 10) * p.den
            /\ last.ret.isFraud = (p.num * 10 > 5 * p.den)
            /\ s = 5 => ~last.ret.isFraud
            /\ _data = last.pre.data
            /\ heap = last.pre.heap

\* a request that scores exactly 0.5, scored while a snapshot is cached
C23_Witness ==
    /\ last.op = "predict_fraud"
    /\ ClaimedScore(last.arg) = 5
    /\ last.arg.amount > 1000
    /\ ~last.ret.isFraud
    /\ _data # NoData

\* C24: when the source file is missing the application still starts, with
\* no snapshot cached; and whatever the cache holds get_health returns, with
\* dataset_loaded = is_loaded(), status "ok" when loaded and "degraded"
\* otherwise, and dataset_size the number of records of the snapshot when
\* loaded and 0 otherwise.
C24_StartupAndHealth ==
    /\ (last.op = "startup" /\ ~Exists(DefaultPath)) => ENABLED Lifespan
    /\ (last.op # "startup" /\ ~Exists(DefaultPath)) => _data = NoData
    /\ last.op = "idle" => ENABLED Health
    /\ last.op = "get_health" =>
          /\ last.exc = "none"
          /\ last.ret.dataset_loaded = IsLoadedValue(_data)
          /\ last.ret.status = (IF _data # NoData THEN "ok" ELSE "degraded")
          /\ last.ret.dataset_size
                = (IF _data # NoData THEN Len(heap[_data].rows) ELSE 0)
          /\ _data = last.pre.data

\* the application started without its source file and answers a health
\* request as degraded
C24_Witness ==
    /\ last.op = "get_health"
    /\ ~Exists(DefaultPath)
    /\ last.ret.status = "degraded"
    /\ ~last.ret.dataset_loaded
    /\ last.ret.dataset_size = 0

\* the number of records of the snapshot whose method is m
MethodCount(t, m) ==
    Cardinality({i \in 1..Len(t.rows) : t.rows[i].use_chip = m})

\* the records that carry a most frequent method of the snapshot
AtModeRows(t) ==
    {i \in 1..Len(t.rows) :
        /\ t.rows[i].use_chip # NaN
        /\ \A j \in 1..Len(t.rows) :
              t.rows[j].use_chip # NaN =>
                 MethodCount(t, t.rows[j].use_chip)
                    <= MethodCount(t, t.rows[i].use_chip)}

\* C25: get_overview reports as most_common_type a most frequent method of
\* the snapshot, and among several with the highest count the one that
\* comes first in storage order.
C25_ModeFirstEncountered ==
    (last.op = "get_overview" /\ last.exc = "none" /\ last.pre.data # NoData
     /\ AtModeRows(heap[_data]) # {}) =>
        LET t == heap[_data]
            first == CHOOSE i \in AtModeRows(t) : \A j \in AtModeRows(t) : i <= j
        IN  last.ret.most_common_type = t.rows[first].use_chip

\* the part of C25 that holds: most_common_type is one of the most
\* frequent methods of the snapshot
C25_ModeIsMostFrequent ==
    (last.op = "get_overview" /\ last.exc = "none" /\ last.pre.data # NoData
     /\ AtModeRows(heap[_data]) # {}) =>
        \E i \in AtModeRows(heap[_data]) :
           last.ret.most_common_type = heap[_data].rows[i].use_chip

\* the calendar days that have records in the snapshot
DaysOf(t) == {DateOnly(t.rows[i].date) : i \in 1..Len(t.rows)}

\* the records of day d, in storage order
RowsOfDay(t, d) == SelectSeq(t.rows, LAMBDA r : DateOnly(r.date) = d)

\* the amounts of the records of day d
AmountsOfDay(t, d) ==
    [i \in 1..Len(RowsOfDay(t, d)) |-> AmountOf(t, RowsOfDay(t, d)[i])]

MethodsOf(t) == {t.rows[i].use_chip : i \in 1..Len(t.rows)} \ {NaN}

\* the amounts of the records whose method is m
AmountsOfMethod(t, m) ==
    LET own == SelectSeq(t.rows, LAMBDA r : r.use_chip = m)
    IN  [i \in 1..Len(own) |-> AmountOf(t, own[i])]

C27_WitnessEmpty ==
    /\ last.op = "get_stats_by_type"
    /\ _data # NoData
    /\ Len(heap[_data].rows) = 0
    /\ last.ret = <<>>

----------------------------------------------------------------------------
\* Properties of the snapshot's publication.

\* C28: whatever is_loaded reports as loaded and get_data returns, at any
\* moment of any load, already has its ids as text and is_fraud merged for
\* every record.
C28_PublishedFullyBuilt ==
    _data # NoData =>
        /\ heap[_data].idStr
        /\ "isFraud" \in heap[_data].cols

\* the second part of C28: a DataFrame is not modified once get_data
\* returns it
C28_NeverModifiedOnceVisible ==
    [][(_data # NoData /\ _data' = _data) => heap'[_data] = heap[_data]]_vars

\* C29: a load_data call that raises leaves the cache as it found it, not
\* loaded: is_loaded is false, get_data raises RuntimeError, and a load_data
\* call that returns never returns a DataFrame that was left half built.
C29_FailedLoadLeavesCache ==
    /\ (last.op = "load_data" /\ last.exc # "none") =>
           /\ _data = last.pre.data
           /\ ~IsLoadedValue(_data)
           /\ GetDataExc(_data) = "RuntimeError"
    /\ (last.op = "load_data" /\ last.exc = "none") =>
           /\ heap[last.ret].idStr
           /\ "isFraud" \in heap[last.ret].cols

\* the part of C29 that holds: a load_data call that raises
\* FileNotFoundError leaves the cache not loaded
C29_MissingSourceLeavesCache ==
    (last.op = "load_data" /\ last.exc = "FileNotFoundError") =>
        /\ _data = last.pre.data
        /\ ~IsLoadedValue(_data)

----------------------------------------------------------------------------
\* The DataLoader objects: DataLoader() is called by lifespan() and by each
\* service's __init__, one call after the other (the services are built
\* when the route modules are imported), and every cache operation goes
\* through the object a holder kept in self.data_loader.

\* mutant: every DataLoader() call makes a new object
NewAlways(inst, objs) ==
    [inst |-> Len(objs) + 1,
     objs |-> Append(objs, [_data |-> NoData]),
     ret |-> Len(objs) + 1]

\* DataLoader.__new__: the object in _instance, made at the first call.  A
\* new object has no _data of its own and reads the class attribute, None.
New(inst, objs) ==
    IF inst = NoInstance
    THEN [inst |-> Len(objs) + 1,
          objs |-> Append(objs, [_data |-> NoData]),
          ret |-> Len(objs) + 1]
    ELSE [inst |-> inst, objs |-> objs, ret |-> inst]

\* the files of the runs that build the objects
SingletonEnvs ==
    { e \in Envs : /\ e.csv = <<RowPool[1]>>
                   /\ e.labels.state = "absent" }

SingletonInit ==
    /\ fs \in SingletonEnvs
    /\ _data = NoData
    /\ heap = <<>>
    /\ reads = 0
    /\ completed = FALSE
    /\ dropped = NoData
    /\ thr = [t \in Threads |-> IdleFrame]
    /\ last = Idle
    /\ Unbuilt

\* _data as the object in _instance has it
InstanceData(inst, objs) ==
    IF inst = NoInstance THEN NoData ELSE objs[inst]._data

\* self.data_loader = DataLoader() of holder h
Construct(h) ==
    /\ last.op = "idle"
    /\ data_loader[h] = NoInstance
    /\ LET n == New(_instance, loaders)
       IN  /\ _instance' = n.inst
           /\ loaders' = n.objs
           /\ data_loader' = [data_loader EXCEPT ![h] = n.ret]
           /\ _data' = InstanceData(n.inst, n.objs)
    /\ UNCHANGED <<fs, heap, reads, completed, dropped, thr, last>>

\* self.data_loader.load_data(p) of holder h
LoadVia(h, p) ==
    /\ last.op = "idle"
    /\ data_loader[h] # NoInstance
    /\ loaders[data_loader[h]]._data # NoData \/ Len(heap) < MaxObjs
    /\ LET o == data_loader[h]
           r == RunLoad([data |-> loaders[o]._data, heap |-> heap,
                         reads |-> reads], NewFrame(p))
           objs == [loaders EXCEPT ![o]._data = r.S.data]
       IN  /\ loaders' = objs
           /\ _data' = InstanceData(_instance, objs)
           /\ heap' = r.S.heap
           /\ reads' = r.S.reads
           /\ completed' = (completed \/ r.L.exc = "none")
           /\ last' = [op |-> "load_data", arg |-> p, via |-> h,
                       exc |-> r.L.exc, ret |-> r.L.ret, pre |-> Pre]
    /\ UNCHANGED <<fs, dropped, thr, _instance, data_loader>>

\* self.data_loader.clear_cache() of holder h
ClearVia(h) ==
    /\ last.op = "idle"
    /\ data_loader[h] # NoInstance
    /\ LET o == data_loader[h]
           objs == [loaders EXCEPT ![o]._data = ClearedData(loaders[o]._data)]
       IN  /\ loaders' = objs
           /\ _data' = InstanceData(_instance, objs)
           /\ dropped' = loaders[o]._data
    /\ reads' = 0
    /\ completed' = FALSE
    /\ last' = [op |-> "clear_cache", arg |-> None, via |-> h,
                exc |-> "none", ret |-> NoData, pre |-> Pre]
    /\ UNCHANGED <<fs, heap, thr, _instance, data_loader>>

\* self.data_loader.is_loaded() of holder h
IsLoadedVia(h) ==
    /\ last.op = "idle"
    /\ data_loader[h] # NoInstance
    /\ last' = [op |-> "is_loaded", arg |-> None, via |-> h, exc |-> "none",
                ret |-> IsLoadedValue(loaders[data_loader[h]]._data),
                pre |-> Pre]
    /\ UNCHANGED <<fs, _instance, loaders, data_loader, _data, heap, reads,
                   completed, dropped, thr>>

\* self.data_loader.get_data() of holder h
GetDataVia(h) ==
    /\ last.op = "idle"
    /\ data_loader[h] # NoInstance
    /\ last' = [op |-> "get_data", arg |-> None, via |-> h,
                exc |-> GetDataExc(loaders[data_loader[h]]._data),
                ret |-> loaders[data_loader[h]]._data, pre |-> Pre]
    /\ UNCHANGED <<fs, _instance, loaders, data_loader, _data, heap, reads,
                   completed, dropped, thr>>

SingletonNext ==
    \/ \E h \in Holders : Construct(h)
    \/ \E h \in Holders, p \in PathArgs : LoadVia(h, p)
    \/ \E h \in Holders : ClearVia(h)
    \/ \E h \in Holders : IsLoadedVia(h)
    \/ \E h \in Holders : GetDataVia(h)
    \/ Respond

SpecSingleton == SingletonInit /\ [][SingletonNext]_vars

\* the holders that have their DataLoader
Built == {h \in Holders : data_loader[h] # NoInstance}

\* C30: every DataLoader() call returns the same object, so whichever
\* holder's loader performed a load or a clear, every holder (lifespan, the
\* transactions, stats, fraud, customer and system services) sees through
\* its own loader the same loaded or unloaded state and the same snapshot.
C30_Singleton ==
    /\ Len(loaders) <= 1
    /\ \A h \in Built : data_loader[h] = _instance
    /\ \A h, k \in Built :
          loaders[data_loader[h]]._data = loaders[data_loader[k]]._data
    /\ (last.op = "load_data" /\ last.exc = "none") =>
          \A k \in Built :
             /\ IsLoadedValue(loaders[data_loader[k]]._data)
             /\ loaders[data_loader[k]]._data = last.ret
    /\ last.op = "clear_cache" =>
          \A k \in Built : ~IsLoadedValue(loaders[data_loader[k]]._data)
    /\ last.op \in {"is_loaded", "get_data"} =>
          \A k \in Built :
             /\ IsLoadedValue(loaders[data_loader[k]]._data)
                   = IsLoadedValue(last.pre.data)
             /\ last.op = "get_data" => last.ret = loaders[data_loader[k]]._data

\* lifespan() has loaded the snapshot and every service holds a loader that
\* has it
C30_Witness ==
    /\ Built = Holders
    /\ last.op = "load_data"
    /\ last.via = "lifespan"
    /\ last.exc = "none"
    /\ last.ret # NoData
    /\ loaders[data_loader["SystemService"]]._data = last.ret

====
